---- MODULE Spec2Model ----
(***************************************************************************)
(* Model of the xostrait procedural macros (src/src/lib.rs):               *)
(*   os_impl             - gates a trait impl on target_os and emits a     *)
(*                         registry fact constant;                         *)
(*   enforce_os_support  - emits, per Requirement attribute of a struct,   *)
(*                         a coverage validation block and a failing stub. *)
(* A state is a crate under expansion: the registry OS_IMPLS included from *)
(* OUT_DIR, and the token stream the macro calls made so far have emitted. *)
(* Strings that the macros split, trim or join are sequences of one        *)
(* character strings; to_string turns them into TLA+ strings.              *)
(***************************************************************************)
EXTENDS Naturals, Sequences, FiniteSets, TLC

VARIABLES
    OS_IMPLS,   \* the registry of os_registry.rs: a sequence of <<trait, oses, origin>>
    output,     \* the macro calls made so far, each with the items it emitted
    os_list,    \* a platform list literal (parsing specification)
    variant,    \* the same literal with other whitespace around its tags
    parsed      \* the results of parsing os_list and variant, once parsed

vars == <<OS_IMPLS, output, os_list, variant, parsed>>

\* ------------------------------------------------------------------ bounds
MaxExpansions == 2   \* os_impl calls per crate
MaxStructs == 1      \* enforce_os_support calls per crate
MaxAttrs == 1        \* Requirement attributes left on the struct item
MaxFacts == 2        \* facts in the registry
MaxLen == 3          \* characters of a platform list literal
MaxPad == 2          \* whitespace characters added around tags

\* ------------------------------------------------------------- characters
WhiteSpace == {" ", "\t"}

\* The characters proc_macro2 accepts after the first one of an identifier.
XID_Continue ==
    {"a", "b", "c", "d", "e", "f", "g", "h", "i", "j", "k", "l", "m", "n", "o",
     "p", "q", "r", "s", "t", "u", "v", "w", "x", "y", "z", "T", "U", "_"}

Range(s) == {s[i] : i \in 1..Len(s)}

\* String::to_string of a character sequence.
RECURSIVE to_string(_)
to_string(s) == IF s = <<>> THEN "" ELSE Head(s) \o to_string(Tail(s))

\* str::split(','): the pieces between the separators, at least one piece.
RECURSIVE split(_, _)
split(s, sep) ==
    IF sep \notin Range(s)
    THEN <<s>>
    ELSE LET i == CHOOSE k \in 1..Len(s) :
                      s[k] = sep /\ \A j \in 1..(k - 1) : s[j] # sep
         IN <<SubSeq(s, 1, i - 1)>> \o split(SubSeq(s, i + 1, Len(s)), sep)

RECURSIVE trim_start(_)
trim_start(s) ==
    IF s # <<>> /\ Head(s) \in WhiteSpace THEN trim_start(Tail(s)) ELSE s

RECURSIVE trim_end(_)
trim_end(s) ==
    IF s # <<>> /\ s[Len(s)] \in WhiteSpace
    THEN trim_end(SubSeq(s, 1, Len(s) - 1))
    ELSE s

\* A plausible slip: only the leading whitespace is removed.
trim_leading_only(s) == trim_start(s)

\* str::trim
trim(s) == trim_end(trim_start(s))

\* os_list.split(',').map(|s| s.trim()): the tags, still as characters.
split_trim(lit) == LET parts == split(lit, ",") IN [i \in 1..Len(parts) |-> trim(parts[i])]

\* os_list.split(',').map(|s| s.trim().to_string()).collect()
parse_os_list(lit) == LET tags == split_trim(lit) IN [i \in 1..Len(tags) |-> to_string(tags[i])]

\* [String]::join
RECURSIVE join(_, _)
join(strs, sep) ==
    IF strs = <<>> THEN ""
    ELSE IF Len(strs) = 1 THEN strs[1]
    ELSE strs[1] \o sep \o join(Tail(strs), sep)

\* join on character sequences (the literal a joined list would be written as)
RECURSIVE join_chars(_, _)
join_chars(segs, sep) ==
    IF segs = <<>> THEN <<>>
    ELSE IF Len(segs) = 1 THEN segs[1]
    ELSE segs[1] \o <<sep>> \o join_chars(Tail(segs), sep)

\* ------------------------------------------------------------ cfg gates
\* The cfg predicate an item is emitted under, and its value for a target.
Ungated == [pred |-> "none", target_os |-> <<>>]
cfg_any(oses) == [pred |-> "any", target_os |-> oses]
cfg_not_any(oses) == [pred |-> "not_any", target_os |-> oses]

\* A plausible slip: the gate keeps only the first platform of the list.
os_conditions_first_only(oses) == <<oses[1]>>

\* oses.iter().map(|os| quote! { target_os = #os_lit })
os_conditions(oses) == oses

cfg_holds(cfg, P) ==
    CASE cfg.pred = "none" -> TRUE
      [] cfg.pred = "any" -> \E i \in 1..Len(cfg.target_os) : cfg.target_os[i] = P
      [] cfg.pred = "not_any" -> ~(\E i \in 1..Len(cfg.target_os) : cfg.target_os[i] = P)

\* ---------------------------------------------------------------- os_impl
\* Option::None of impl_block.trait_: an inherent impl names no trait.
None == <<>>

\* impl_block.trait_.as_ref().unwrap().1 .segments.last().unwrap().ident
last_segment(path) == path[Len(path)]

\* The trait name a fact records: stringify!(#trait_ident)
fact_trait_name(path) == last_segment(path)

\* format!("os_impl_{}_{}", trait_ident, oses.join("_"))
impl_ident(trait_ident, oses) == "os_impl_" \o trait_ident \o "_" \o join(oses, "_")

\* syn::Ident::new panics on a string that is no identifier: the prefix and the
\* trait identifier are, so the tags decide.
is_ident(tags) == \A i \in 1..Len(tags) : Range(tags[i]) \subseteq XID_Continue

\* A plausible slip: the fact constant is gated like the implementation.
fact_cfg_gated(oses) == cfg_any(os_conditions(oses))

\* The fact constant is emitted without a cfg attribute.
fact_cfg(oses) == Ungated

\* The quote! of os_impl: the fact constant, then the gated implementation.
os_impl_tokens(trait_path, oses, impl_block) ==
    << [item |-> "const", cfg |-> fact_cfg(oses),
        ident |-> impl_ident(last_segment(trait_path), oses),
        value |-> <<fact_trait_name(trait_path), oses>>],
       [item |-> "impl", cfg |-> cfg_any(os_conditions(oses)), block |-> impl_block] >>

\* #[os_impl("...")] on an impl block. The unwrap of trait_ and Ident::new
\* panic; a panicking call emits nothing and ends the build.
os_impl(args, input) ==
    LET oses == parse_os_list(args.os_list)
    IN /\ Len(SelectSeq(output, LAMBDA c : c.macro = "os_impl")) < MaxExpansions
       /\ input.trait_ # None
       /\ is_ident(split_trim(args.os_list))
       /\ output' = Append(output,
              [macro |-> "os_impl", args |-> args, input |-> input,
               tokens |-> os_impl_tokens(input.trait_, oses, input)])
       /\ UNCHANGED <<OS_IMPLS, os_list, variant, parsed>>
\* ----------------------------------------------------- enforce_os_support
\* attr.path().is_ident("enforce_os_support")
is_enforce(attr) == attr.path = "enforce_os_support"

\* A plausible slip: the validation block is gated like the stub.
validate_cfg_gated(required_oses) == cfg_not_any(os_conditions(required_oses))

\* The validation block is emitted without a cfg attribute.
validate_cfg(required_oses) == Ungated

\* format!("Trait {} must be implemented for one of: {}", ...)
error_msg(trait_ident, required_oses) ==
    "Trait " \o trait_ident \o " must be implemented for one of: "
        \o join(required_oses, ", ")

\* include!(concat!(env!("OUT_DIR"), "/os_registry.rs"));
registry_path == [item |-> "include", cfg |-> Ungated, file |-> "os_registry.rs"]

\* const #trait_ident: () = { ... };
validate_block(trait_ident, required_oses) ==
    [item |-> "validate", cfg |-> validate_cfg(required_oses),
     ident |-> trait_ident, required |-> required_oses]

\* #[cfg(not(any(...)))] impl #trait_name for #struct_name { compile_error!(..) }
enforce_block(trait_path, struct_name, required_oses) ==
    [item |-> "impl", cfg |-> cfg_not_any(os_conditions(required_oses)),
     block |-> [trait_ |-> trait_path, self_ty |-> struct_name,
                items |-> <<"compile_error",
                            error_msg(last_segment(trait_path), required_oses)>>]]

\* What one Requirement attribute pushes onto enforce_outputs.
enforce_output(attr, struct_name) ==
    LET required_oses == parse_os_list(attr.tokens.os_list)
        trait_path == attr.tokens.trait_ty.path
    IN << registry_path,
          validate_block(last_segment(trait_path), required_oses),
          enforce_block(trait_path, struct_name, required_oses) >>

RECURSIVE enforce_outputs(_, _)
enforce_outputs(attrs, struct_name) ==
    IF attrs = <<>> THEN <<>>
    ELSE enforce_output(Head(attrs), struct_name)
             \o enforce_outputs(Tail(attrs), struct_name)

\* The attributes the for loop visits: those of the item; _args is not read.
enforced_attrs(args, struct_item) == SelectSeq(struct_item.attrs, is_enforce)

\* struct_item.attrs.retain(|attr| !attr.path().is_ident("enforce_os_support"))
retained(struct_item) ==
    [item |-> "struct", cfg |-> Ungated, ident |-> struct_item.ident,
     attrs |-> SelectSeq(struct_item.attrs, LAMBDA a : ~is_enforce(a))]

\* #[enforce_os_support(T("..."))] on a struct: args are the tokens of the
\* attribute that invoked the macro, input is the struct with the attributes
\* that follow it. A trait that is no path type panics.
enforce_os_support(args, input) ==
    LET attrs == enforced_attrs(args, input)
    IN /\ Len(SelectSeq(output, LAMBDA c : c.macro = "enforce_os_support")) < MaxStructs
       /\ \A i \in 1..Len(attrs) : attrs[i].tokens.trait_ty.type = "Path"
       /\ output' = Append(output,
              [macro |-> "enforce_os_support", args |-> args, input |-> input,
               tokens |-> <<retained(input)>> \o enforce_outputs(attrs, input.ident)])
       /\ UNCHANGED <<OS_IMPLS, os_list, variant, parsed>>
\* ------------------------------------------- the generated validation block
\* OS_IMPLS.iter().filter(|(t, _, _)| t == &stringify!(T))
\*     .flat_map(|(_, oses, _)| oses.iter()).copied().collect()
\* A plausible slip: find instead of filter, only the first matching fact counts.
RECURSIVE implemented_first_match(_, _)
implemented_first_match(registry, trait_ident) ==
    IF registry = <<>> THEN <<>>
    ELSE IF Head(registry)[1] = trait_ident THEN Head(registry)[2]
    ELSE implemented_first_match(Tail(registry), trait_ident)

RECURSIVE implemented(_, _)
implemented(registry, trait_ident) ==
    IF registry = <<>> THEN <<>>
    ELSE (IF Head(registry)[1] = trait_ident THEN Head(registry)[2] ELSE <<>>)
             \o implemented(Tail(registry), trait_ident)

\* implemented.contains(&req)
contains(vec, x) == \E i \in 1..Len(vec) : vec[i] = x

\* concat!("Missing implementation for OS: ", req, " for trait ", stringify!(T))
missing_msg(req, trait_ident) ==
    <<"Missing implementation for OS: ", req, " for trait ", trait_ident>>

\* for req in required { if !implemented.contains(&req) { panic!(..) } }
RECURSIVE check_required(_, _, _)
check_required(required, impls, trait_ident) ==
    IF required = <<>> THEN [panicked |-> FALSE, message |-> <<>>]
    ELSE IF ~contains(impls, Head(required))
    THEN [panicked |-> TRUE, message |-> missing_msg(Head(required), trait_ident)]
    ELSE check_required(Tail(required), impls, trait_ident)

\* The evaluation of one validation block against the registry.
validate(registry, block) ==
    check_required(block.required, implemented(registry, block.ident), block.ident)

\* ------------------------------------------------ the crate and its targets
RECURSIVE flatten(_)
flatten(calls) ==
    IF calls = <<>> THEN <<>> ELSE Head(calls).tokens \o flatten(Tail(calls))

\* Every item the macro calls emitted, in source order.
Items == flatten(output)

\* The items that are part of the program compiled for target P.
compiled(P) == SelectSeq(Items, LAMBDA it : cfg_holds(it.cfg, P))

\* The panics of the validation blocks compiled for target P.
diagnostics(P) ==
    LET blocks == SelectSeq(compiled(P), LAMBDA it : it.item = "validate")
        run == [i \in 1..Len(blocks) |-> validate(OS_IMPLS, blocks[i])]
    IN SelectSeq(run, LAMBDA r : r.panicked)
\* ------------------------------------------------------------------ inputs
Targets == {"linux", "windows", "macos"}

linux == <<"l", "i", "n", "u", "x">>
windows == <<"w", "i", "n", "d", "o", "w", "s">>

\* Platform list literals given to os_impl.
OsLists ==
    { linux,
      linux \o <<",", " ">> \o windows,
      <<" ">> \o linux \o <<" ", ",", " ">> \o windows \o <<" ">>,
      <<"m", "a", "c", "o", "s">>,
      <<"a", "_", "b">>,
      <<"a", ",", "b">>,
      <<"a", " ", "b">> }

\* struct OsArg { os_list: LitStr }
OsArg == [os_list : OsLists]

\* The impl blocks os_impl is put on; items is the body, kept as written.
ItemImpl ==
    [trait_ : {<<"T">>, <<"net", "T">>, <<"U">>, None},
     self_ty : {"Foo"},
     items : {<<"fn do_something">>}]

\* struct EnforceArgs { trait_ty: Type, os_list: LitStr }
EnforceArgs ==
    { [trait_ty |-> [type |-> "Path", path |-> <<"T">>],
       os_list |-> linux \o <<",", " ">> \o windows],
      [trait_ty |-> [type |-> "Path", path |-> <<"net", "U">>],
       os_list |-> <<" ">> \o windows] }

\* The attributes a struct item may carry besides the invoking one.
Attrs ==
    {[path |-> "enforce_os_support", tokens |-> a] : a \in EnforceArgs}
        \cup {[path |-> "derive", tokens |-> <<"Debug">>]}

SeqsUpTo(S, n) == UNION {[1..k -> S] : k \in 0..n}

ItemStruct == [ident : {"Foo"}, attrs : SeqsUpTo(Attrs, MaxAttrs)]

\* The contents os_registry.rs may have: (trait, platforms, origin) triples.
Facts == {<<t, o, "os_registry">> : t \in {"T", "U"}, o \in {<<"linux">>, <<"windows">>}}

Registries == SeqsUpTo(Facts, MaxFacts)

NotParsed == <<>>

\* ----------------------------------------------- specification of os_impl
InitEmit ==
    /\ OS_IMPLS = <<>>
    /\ output = <<>>
    /\ os_list = <<>> /\ variant = <<>> /\ parsed = NotParsed

NextEmit == \E args \in OsArg, input \in ItemImpl : os_impl(args, input)

SpecEmit == InitEmit /\ [][NextEmit]_vars

\* ------------------------------------ specification of enforce_os_support
InitEnforce ==
    /\ OS_IMPLS \in Registries
    /\ output = <<>>
    /\ os_list = <<>> /\ variant = <<>> /\ parsed = NotParsed

NextEnforce ==
    \E args \in EnforceArgs, input \in ItemStruct : enforce_os_support(args, input)

SpecEnforce == InitEnforce /\ [][NextEnforce]_vars
\* ------------------------------------------------------ claims on os_impl
EmitCalls == {i \in 1..Len(output) : output[i].macro = "os_impl"}

ItemsOf(i, kind) == SelectSeq(output[i].tokens, LAMBDA it : it.item = kind)

\* t is seg without the whitespace around it (stated without trim).
IsTrimOf(t, seg) ==
    /\ \E i \in 1..(Len(seg) + 1), j \in 0..Len(seg) :
          /\ t = SubSeq(seg, i, j)
          /\ \A k \in 1..(i - 1) : seg[k] \in WhiteSpace
          /\ \A k \in (j + 1)..Len(seg) : seg[k] \in WhiteSpace
    /\ t # <<>> => (t[1] \notin WhiteSpace /\ t[Len(t)] \notin WhiteSpace)

\* The tags a literal lists: its comma-separated pieces, each without the
\* whitespace around it.
TagsOf(lit) ==
    LET segs == split(lit, ",")
    IN [k \in 1..Len(segs) |->
           to_string(CHOOSE t \in {SubSeq(segs[k], i, j) :
                                      i \in 1..(Len(segs[k]) + 1), j \in 0..Len(segs[k])} :
                         IsTrimOf(t, segs[k]))]

\* The facts the crate's fact constants record for trait name t.
FactsFor(t) == SelectSeq(Items, LAMBDA it : it.item = "const" /\ it.value[1] = t)

\* C5: every os_impl call emits exactly one fact constant, holding the simple
\* name of the trait and the tags of the list in input order, under no cfg
\* gate, so it is compiled for every target; when one call only names a
\* trait, the facts of that trait are that one fact with exactly those tags.
C5_FactEmitted ==
    \A i \in EmitCalls :
        LET c == output[i]
            t == c.input.trait_[Len(c.input.trait_)]
            S == TagsOf(c.args.os_list)
            consts == ItemsOf(i, "const")
        IN /\ Len(consts) = 1
           /\ consts[1].value = <<t, S>>
           /\ consts[1].cfg.pred = "none"
           /\ \A P \in Targets : contains(compiled(P), consts[1])
           /\ (\A j \in EmitCalls \ {i} :
                   output[j].input.trait_[Len(output[j].input.trait_)] # t)
                 => /\ Len(FactsFor(t)) = 1
                    /\ FactsFor(t)[1].value[2] = S

\* A fact of a qualified trait, for a two platform list, compiled for a
\* target outside the list while the implementation is not.
C5_Witness ==
    \E i \in EmitCalls :
        /\ output[i].input.trait_ = <<"net", "T">>
        /\ TagsOf(output[i].args.os_list) = <<"linux", "windows">>
        /\ contains(compiled("macos"), ItemsOf(i, "const")[1])
        /\ ~contains(compiled("macos"), ItemsOf(i, "impl")[1])
        /\ Len(FactsFor("T")) = 1

\* C6: the implementation block of an os_impl call is compiled for target P
\* exactly when P is one of the trimmed tags of the list, and it is the block
\* as written.
C6_ImplGated ==
    \A i \in EmitCalls :
        LET c == output[i]
            S == TagsOf(c.args.os_list)
            impls == ItemsOf(i, "impl")
        IN /\ Len(impls) = 1
           /\ impls[1].block = c.input
           /\ \A P \in Targets :
                  cfg_holds(impls[1].cfg, P) <=> (\E k \in 1..Len(S) : S[k] = P)

\* A padded two platform list: compiled for the second platform, not for macos.
C6_Witness ==
    \E i \in EmitCalls :
        /\ output[i].args.os_list
               = <<" ">> \o linux \o <<" ", ",", " ">> \o windows \o <<" ">>
        /\ cfg_holds(ItemsOf(i, "impl")[1].cfg, "windows")
        /\ ~cfg_holds(ItemsOf(i, "impl")[1].cfg, "macos")

\* The (trait simple name, platform sequence) pair of an os_impl call.
PairOf(i) ==
    <<output[i].input.trait_[Len(output[i].input.trait_)],
      TagsOf(output[i].args.os_list)>>

\* C8: two os_impl calls whose (trait simple name, platform sequence) pairs
\* differ get different fact constant identifiers.
C8_IdentInjective ==
    \A i, j \in EmitCalls :
        PairOf(i) # PairOf(j)
            => ItemsOf(i, "const")[1].ident # ItemsOf(j, "const")[1].ident

\* C9: when the same (trait simple name, platform sequence) pair is emitted
\* by two os_impl calls, the output holds no two fact constants with the
\* identifier of that pair (an error or one merged definition instead).
C9_NoDuplicateFact ==
    \A i, j \in EmitCalls :
        (i < j /\ PairOf(i) = PairOf(j))
            => LET id == ItemsOf(i, "const")[1].ident
               IN Len(SelectSeq(Items, LAMBDA it : it.item = "const" /\ it.ident = id)) <= 1
\* ------------------------------------------------ specification of a crate
Init == InitEnforce

Next ==
    \/ \E args \in OsArg, input \in ItemImpl : os_impl(args, input)
    \/ \E args \in EnforceArgs, input \in ItemStruct : enforce_os_support(args, input)

Spec == Init /\ [][Next]_vars

\* ------------------------------------------- claims on enforce_os_support
EnforceCalls == {i \in 1..Len(output) : output[i].macro = "enforce_os_support"}

\* The Requirement annotations the struct of call i carries in the source:
\* the one that invoked the macro, then those left on the item.
Declared(i) ==
    <<output[i].args>>
        \o [k \in 1..Len(SelectSeq(output[i].input.attrs, is_enforce)) |->
               SelectSeq(output[i].input.attrs, is_enforce)[k].tokens]

\* The Requirements the macro read from the item's attribute list.
Processed(i) ==
    [k \in 1..Len(SelectSeq(output[i].input.attrs, is_enforce)) |->
        SelectSeq(output[i].input.attrs, is_enforce)[k].tokens]

SimpleName(req) == req.trait_ty.path[Len(req.trait_ty.path)]

\* The union of the platform lists of the registry facts named t.
Registered(t) ==
    UNION {Range(OS_IMPLS[k][2]) : k \in {x \in 1..Len(OS_IMPLS) : OS_IMPLS[x][1] = t}}

Missing(req) == Range(TagsOf(req.os_list)) \ Registered(SimpleName(req))

IsStub(it) == it.item = "impl" /\ it.block.items[1] = "compile_error"

\* C1: a struct with n Requirement annotations in the source (the invoking
\* one included) gets n validation blocks and n failing stubs, one of each
\* per declared Requirement.
C1_EveryRequirementAsserted ==
    \A i \in EnforceCalls :
        /\ Len(ItemsOf(i, "validate")) = Len(Declared(i))
        /\ Len(SelectSeq(output[i].tokens, IsStub)) = Len(Declared(i))
        /\ \A k \in 1..Len(Declared(i)) :
              \E b \in Range(ItemsOf(i, "validate")) :
                  /\ b.ident = SimpleName(Declared(i)[k])
                  /\ b.required = TagsOf(Declared(i)[k].os_list)

\* C2: when every tag of a processed Requirement (T, R) is in the union of
\* the platform lists of the registry facts named T, its validation block
\* does not panic and the build of no target reports a diagnostic for it.
C2_CoveredPasses ==
    \A i \in EnforceCalls : \A k \in 1..Len(Processed(i)) :
        Missing(Processed(i)[k]) = {}
            => /\ Len(ItemsOf(i, "validate")) >= k
               /\ ~validate(OS_IMPLS, ItemsOf(i, "validate")[k]).panicked
               /\ \A P \in Targets : \A d \in Range(diagnostics(P)) :
                      d.message[4] = SimpleName(Processed(i)[k])
                          => \E j \in EnforceCalls : \E n \in 1..Len(Processed(j)) :
                                 /\ SimpleName(Processed(j)[n]) = d.message[4]
                                 /\ d.message[2] \in Missing(Processed(j)[n])

\* A Requirement for T on two platforms, covered only by the union of two
\* facts named T, validated without a diagnostic.
C2_Witness ==
    /\ OS_IMPLS = << <<"T", <<"linux">>, "os_registry">>,
                     <<"T", <<"windows">>, "os_registry">> >>
    /\ \E i \in EnforceCalls :
          /\ Len(Processed(i)) = 1
          /\ TagsOf(Processed(i)[1].os_list) = <<"linux", "windows">>
          /\ ~validate(OS_IMPLS, ItemsOf(i, "validate")[1]).panicked
          /\ diagnostics("macos") = <<>>

\* C3: when a processed Requirement (T, R) has tags missing from the union of
\* the registered platform lists of T, its validation block panics and the
\* diagnostic names T and every missing tag.
C3_AllMissingNamed ==
    \A i \in EnforceCalls : \A k \in 1..Len(Processed(i)) :
        Missing(Processed(i)[k]) # {}
            => LET r == validate(OS_IMPLS, ItemsOf(i, "validate")[k])
               IN /\ r.panicked
                  /\ SimpleName(Processed(i)[k]) \in Range(r.message)
                  /\ Missing(Processed(i)[k]) \subseteq Range(r.message)

\* C10: the validation outcome is the same for every two build targets.
C10_TargetIndependent ==
    \A P1, P2 \in Targets : diagnostics(P1) = diagnostics(P2)

\* A failing validation reported alike for linux and macos, while the stub
\* of the same Requirement is compiled for macos only.
C10_Witness ==
    \E i \in EnforceCalls :
        /\ Len(Processed(i)) = 1
        /\ diagnostics("linux") # <<>>
        /\ diagnostics("linux") = diagnostics("macos")
        /\ ~contains(compiled("linux"), SelectSeq(output[i].tokens, IsStub)[1])
        /\ contains(compiled("macos"), SelectSeq(output[i].tokens, IsStub)[1])
\* --------------------------------------------------- claim on a whole crate
\* The implementation items of trait name t for struct s: the real ones that
\* os_impl gated, or the failing stubs.
ImplsOf(s, t, stub) ==
    SelectSeq(Items, LAMBDA it :
        /\ it.item = "impl"
        /\ IsStub(it) = stub
        /\ it.block.self_ty = s
        /\ it.block.trait_[Len(it.block.trait_)] = t)

ActiveFor(impls, P) == \E k \in 1..Len(impls) : cfg_holds(impls[k].cfg, P)

\* The registry holds for t what the crate's fact constants record for t.
RegistryReflectsFacts(t) ==
    Registered(t) = UNION {Range(FactsFor(t)[k].value[2]) : k \in 1..Len(FactsFor(t))}

\* C4: for a (struct, trait) pair with os_impl implementations and one
\* processed Requirement whose validation passes, every target has exactly
\* one of the real implementation and the failing stub compiled.
C4_ExactlyOneImpl ==
    \A s \in {"Foo"}, t \in {"T", "U"} :
        ( /\ ImplsOf(s, t, FALSE) # <<>>
          /\ Len(ImplsOf(s, t, TRUE)) = 1
          /\ RegistryReflectsFacts(t)
          /\ \A P \in Targets : diagnostics(P) = <<>> )
            => \A P \in Targets :
                   ActiveFor(ImplsOf(s, t, FALSE), P) # ActiveFor(ImplsOf(s, t, TRUE), P)
\* ------------------------------------- specification of platform list parsing
Alphabet == {"a", "b", ",", " "}

InitParse ==
    /\ os_list \in SeqsUpTo(Alphabet, MaxLen)
    /\ variant = os_list
    /\ parsed = NotParsed
    /\ OS_IMPLS = <<>> /\ output = <<>>

\* Between s[i] and s[i+1] only whitespace separates from the start or the
\* end of a comma-separated piece.
AtTagEdge(s, i) ==
    \/ \E k \in 0..i :
          (IF k = 0 THEN TRUE ELSE s[k] = ",") /\ \A j \in (k + 1)..i : s[j] \in WhiteSpace
    \/ \E k \in (i + 1)..(Len(s) + 1) :
          (IF k = Len(s) + 1 THEN TRUE ELSE s[k] = ",") /\ \A j \in (i + 1)..(k - 1) : s[j] \in WhiteSpace

\* The writer of the literal adds a whitespace character around a tag.
Pad ==
    /\ parsed = NotParsed
    /\ Len(variant) < Len(os_list) + MaxPad
    /\ \E i \in 0..Len(variant), w \in WhiteSpace :
          /\ AtTagEdge(variant, i)
          /\ variant' = SubSeq(variant, 1, i) \o <<w>> \o SubSeq(variant, i + 1, Len(variant))
    /\ UNCHANGED <<OS_IMPLS, output, os_list, parsed>>

\* The writer of the literal removes a whitespace character around a tag.
Unpad ==
    /\ parsed = NotParsed
    /\ \E i \in 1..Len(variant) :
          /\ variant[i] \in WhiteSpace
          /\ AtTagEdge(variant, i) \/ AtTagEdge(variant, i - 1)
          /\ variant' = SubSeq(variant, 1, i - 1) \o SubSeq(variant, i + 1, Len(variant))
    /\ UNCHANGED <<OS_IMPLS, output, os_list, parsed>>

\* Both literals are parsed as os_impl and enforce_os_support parse them, and
\* the comma-joined result of the first is parsed again.
Parse ==
    /\ parsed = NotParsed
    /\ parsed' = [of_list |-> parse_os_list(os_list),
                  of_variant |-> parse_os_list(variant),
                  again |-> parse_os_list(join_chars(split_trim(os_list), ","))]
    /\ UNCHANGED <<OS_IMPLS, output, os_list, variant>>

NextParse == Pad \/ Unpad \/ Parse

SpecParse == InitParse /\ [][NextParse]_vars

\* C7: two literals that differ only in the whitespace around their
\* comma-separated tags parse to the same sequence of tags, and parsing the
\* comma-joined result of a parse gives that sequence again.
C7_WhitespaceInsensitive ==
    parsed # NotParsed
        => /\ parsed.of_variant = parsed.of_list
           /\ parsed.again = parsed.of_list
           /\ parse_os_list(linux \o <<",", " ">> \o windows) = <<"linux", "windows">>
           /\ parse_os_list(linux \o <<",">> \o windows) = <<"linux", "windows">>
           /\ parse_os_list(<<" ">> \o linux \o <<" ", ",", " ">> \o windows \o <<" ">>)
                  = <<"linux", "windows">>

\* "a,b" written with a tab before the comma and a space after it, parsed.
C7_Witness ==
    /\ parsed # NotParsed
    /\ os_list = <<"a", ",", "b">>
    /\ variant = <<"a", "\t", ",", " ", "b">>
    /\ parsed.of_variant = <<"a", "b">>
====
